---- MODULE Spec2Model ----
(***************************************************************************)
(* GameTok: the Flask live-edit server (src/freestyle_live_edit.py), the   *)
(* dev server controller (src/freestyle_dev.py) and the scripts using it.  *)
(*                                                                         *)
(* Four specifications share this module:                                  *)
(*   SanSpec  the sanitizer (strip_markdown_fences,                        *)
(*            ensure_react_file_contract, sanitize_react_code) applied     *)
(*            once and then to its own output, on every raw text of a      *)
(*            bounded length;                                              *)
(*   Spec     the server: /connect, /gamezone/*, and the /generate-game    *)
(*            pipeline run by concurrent request handlers;                 *)
(*   LiveSpec the pipeline runs alone, every started run being scheduled;  *)
(*   CtlSpec  the methods of FreestyleDevController called in any order,   *)
(*            and add_new_game_to_list (src/quick_edit_example.py).        *)
(*                                                                         *)
(* A text is a sequence of tokens.  Each token stands for a fixed literal  *)
(* string of the program's input, so that every string operation of the    *)
(* code (substring test, replace, regex match, rfind, slice, strip) is     *)
(* computed exactly on the texts that are concatenations of the literals:  *)
(*   FENCE   "```"                       (3 characters)                    *)
(*   NL      "\n"                        (1)                               *)
(*   SP      " "                         (1, whitespace)                   *)
(*   CH      one character of [a-zA-Z0-9_-]   (1)                          *)
(*   BOM     U+FEFF                      (1, not whitespace)               *)
(*   SEMI    ";"                         (1)                               *)
(*   IMPORT  "import React"              (12)                              *)
(*   REST    ", { useEffect, useRef, useState } from 'react';"  (47)       *)
(*   EXPORT  "export default GameZone"   (23)                              *)
(*   BLOCK   300 characters "/" of code  (300)                             *)
(* None is Python's None.                                                  *)
(***************************************************************************)
EXTENDS Integers, Sequences, FiniteSets, TLC

VARIABLES
    \* ---- the sanitizer under test (SanSpec) ----
    san_pc,          \* "input" | "once" | "twice"
    san_raw,         \* the raw text handed to sanitize_react_code
    san_first,       \* result of the first pass
    san_second,      \* result of the pass over the first pass's output
    \* ---- the server (Spec) ----
    dev_server_wrapper,     \* 0 = None, k > 0 = the k-th dev server
    last_generation_debug,  \* the debug sidecar
    gamezone,               \* content of src/GameZone.js on the dev server
    detailed_log,           \* detailed_game_logs.txt exists
    pc,                     \* position of each request handler
    game_idea,              \* locals of generate_game, per handler
    game_html,
    react_code,             \* locals of apply_react_with_morph_to_gamezone
    current_gamezone,
    updated_gamezone,
    response,               \* the handler's HTTP response
    route_response,         \* the response of the last one-step route
    calls,                  \* history: the external calls of the current run
    disturbed,              \* history: another run was in progress since this one began
    written_before,         \* history: written_code when the run started
    requests,               \* number of HTTP requests so far
    \* ---- FreestyleDevController and the scripts that use it (CtlSpec) ----
    repo_id,         \* self.repo_id: 0 = None
    dev_server,      \* self.dev_server: 0 = None, k > 0 = the k-th dev server
    shut_down,       \* the dev servers whose shutdown() has returned
    ctl_last,        \* the last method call: its outcome and its remote call
    app_js,          \* content of src/App.js on the dev server
    add_last,        \* the last add_new_game_to_list call
    ops              \* number of calls so far

san_vars == <<san_pc, san_raw, san_first, san_second>>

srv_vars ==
    <<dev_server_wrapper, last_generation_debug, gamezone, detailed_log, pc,
      game_idea, game_html, react_code, current_gamezone, updated_gamezone,
      response, route_response, calls, disturbed, written_before, requests>>

ctl_vars == <<repo_id, dev_server, shut_down, ctl_last, app_js, add_last, ops>>

vars == <<san_vars, srv_vars, ctl_vars>>

-----------------------------------------------------------------------------
(* Bounds *)

\* Longest raw text, in tokens, given to the sanitizer under test.
MaxLen == 5

\* HTTP requests over the server's life.
MaxRequests == 3

-----------------------------------------------------------------------------
(* Texts *)

None == <<"None">>

FENCE == "FENCE"
NL == "NL"
SP == "SP"
CH == "CH"
BOM == "BOM"
SEMI == "SEMI"
IMPORT == "IMPORT"
REST == "REST"
EXPORT == "EXPORT"
BLOCK == "BLOCK"

\* Number of characters of a token's literal.
Width(t) ==
    CASE t = FENCE -> 3
      [] t = IMPORT -> 12
      [] t = REST -> 47
      [] t = EXPORT -> 23
      [] t = BLOCK -> 300
      [] OTHER -> 1

RECURSIVE CharLen(_)
\* len(text), in characters.
CharLen(text) ==
    IF text = <<>> THEN 0 ELSE Width(Head(text)) + CharLen(Tail(text))

\* str.isspace() of a token's literal.
IsSpace(t) == t \in {NL, SP}

\* A token the class [a-zA-Z0-9_\-] matches in full.
IsFenceLang(t) == t = CH

\* tok in text
Contains(text, tok) == \E i \in 1..Len(text) : text[i] = tok

\* text.replace(tok, "")
Remove(text, tok) == SelectSeq(text, LAMBDA t : t # tok)

\* text.count(tok)
Count(text, tok) == Cardinality({i \in 1..Len(text) : text[i] = tok})

\* text.rstrip()
RStrip(text) ==
    LET keep == {i \in 1..Len(text) : ~IsSpace(text[i])}
    IN  IF keep = {} THEN <<>>
        ELSE SubSeq(text, 1, CHOOSE i \in keep : \A j \in keep : j <= i)

\* text.lstrip()
LStrip(text) ==
    LET keep == {i \in 1..Len(text) : ~IsSpace(text[i])}
    IN  IF keep = {} THEN <<>>
        ELSE SubSeq(text, CHOOSE i \in keep : \A j \in keep : i <= j, Len(text))

\* text.strip()
Strip(text) == LStrip(RStrip(text))

\* text.lstrip(U+FEFF)
LStripBOM(text) ==
    LET keep == {i \in 1..Len(text) : text[i] # BOM}
    IN  IF keep = {} THEN <<>>
        ELSE SubSeq(text, CHOOSE i \in keep : \A j \in keep : i <= j, Len(text))

\* The positions i at which r"```[a-zA-Z0-9_\-]*\n" matches, each with the
\* position of the "\n" that ends the match.
FenceOpeners(text) ==
    {m \in (1..Len(text)) \X (1..Len(text)) :
        /\ m[1] < m[2]
        /\ text[m[1]] = FENCE
        /\ text[m[2]] = NL
        /\ \A k \in (m[1] + 1)..(m[2] - 1) : IsFenceLang(text[k])}

\* text.rfind("```"), as a token position (0 when there is none)
RFindFence(text) ==
    LET at == {i \in 1..Len(text) : text[i] = FENCE}
    IN  IF at = {} THEN 0 ELSE CHOOSE i \in at : \A j \in at : j <= i

-----------------------------------------------------------------------------
(* Sanitization helpers *)

\* The slice the code keeps between the first opening fence and the last
\* fence marker.
FencedInner(text, start, end_idx) == Strip(SubSeq(text, start, end_idx - 1))

strip_markdown_fences(text) ==
    IF text = None THEN [text |-> text, stripped |-> FALSE]
    ELSE IF ~Contains(text, FENCE) THEN [text |-> text, stripped |-> FALSE]
    ELSE LET matches == FenceOpeners(text)
         IN  IF matches = {}
             THEN [text |-> Remove(text, FENCE), stripped |-> TRUE]
             ELSE LET first == CHOOSE m \in matches :
                                   \A o \in matches : m[1] <= o[1]
                      start == first[2] + 1
                      end_idx == RFindFence(text)
                  IN  IF end_idx > start
                      THEN [text |-> FencedInner(text, start, end_idx),
                            stripped |-> TRUE]
                      ELSE [text |-> Remove(text, FENCE), stripped |-> TRUE]

\* The import line the code prepends.
ImportLine == <<IMPORT, REST, NL>>

\* The trailer the code appends.
ExportTrailer == <<NL, NL, EXPORT, SEMI, NL>>

\* The window of the import test, in characters.
First300 == 300

\* "import React" in normalized[:300]
ImportInWindow(normalized) ==
    \E i \in 1..Len(normalized) :
        /\ normalized[i] = IMPORT
        /\ CharLen(SubSeq(normalized, 1, i)) <= First300

\* Mutant of WithImport: the import line is never prepended.
WithImport_never(normalized) == normalized

\* The text after the import step.
WithImport(normalized) ==
    IF ImportInWindow(normalized) THEN normalized ELSE ImportLine \o normalized

\* Mutant of WithExport: the trailer is appended without the semicolon line.
WithExport_bare(normalized) ==
    IF Contains(normalized, EXPORT) THEN normalized
    ELSE RStrip(normalized) \o <<NL, NL, EXPORT>>

\* The text after the export step.
WithExport(normalized) ==
    IF Contains(normalized, EXPORT) THEN normalized
    ELSE RStrip(normalized) \o ExportTrailer

ensure_react_file_contract(code) ==
    IF code = None THEN [text |-> code, fixes |-> <<>>]
    ELSE LET normalized == LStripBOM(code)
             imported == WithImport(normalized)
             exported == WithExport(imported)
             fix1 == IF ImportInWindow(normalized) THEN <<>>
                     ELSE <<"added_import">>
             fix2 == IF Contains(imported, EXPORT) THEN <<>>
                     ELSE <<"added_export">>
         IN  [text |-> exported, fixes |-> fix1 \o fix2]

\* raw or ""
OrEmpty(raw) == IF raw = None \/ raw = <<>> THEN <<>> ELSE raw

sanitize_react_code(raw, source_label) ==
    LET code == OrEmpty(raw)
        s == strip_markdown_fences(code)
        c == ensure_react_file_contract(s.text)
    IN  [text |-> c.text,
         meta |-> [source |-> source_label,
                   stripped_fences |-> s.stripped,
                   fixes |-> c.fixes]]

-----------------------------------------------------------------------------
(* SanSpec: the sanitizer on every bounded raw text *)

Alphabet == {FENCE, NL, SP, CH, BOM, IMPORT, EXPORT, BLOCK}

RawTexts == UNION {[1..n -> Alphabet] : n \in 0..MaxLen}

NoResult == [text |-> None,
             meta |-> [source |-> "", stripped_fences |-> FALSE, fixes |-> <<>>]]

SanInputs ==
    /\ san_pc = "input"
    /\ san_raw \in RawTexts \cup {None}
    /\ san_first = NoResult
    /\ san_second = NoResult

\* sanitize_react_code(raw, "Claude")
SanitizeOnce ==
    /\ san_pc = "input"
    /\ san_first' = sanitize_react_code(san_raw, "Claude")
    /\ san_pc' = "once"
    /\ UNCHANGED <<san_raw, san_second>>

\* sanitize_react_code applied to its own output
SanitizeTwice ==
    /\ san_pc = "once"
    /\ san_second' = sanitize_react_code(san_first.text, "Claude")
    /\ san_pc' = "twice"
    /\ UNCHANGED <<san_raw, san_first>>

-----------------------------------------------------------------------------
(* The server: state *)

\* The request handler threads of the Flask server.
Handlers == {"h1", "h2"}

\* The 'game_idea' values a request may carry.
Ideas == {<<"snake">>, <<"pong">>}

\* What the generator may return as message.content[0].text.
GenBare == <<CH, SP, CH, SEMI>>
GenOutputs == {GenBare, <<>>}

\* What the patch service may return for (current file, update).
MorphOutputs(current, update) ==
    {update, <<FENCE, CH, NL>> \o current \o <<NL, FENCE>>}

\* src/GameZone.js of a freshly cloned repository.
RepoGameZone == <<IMPORT, SEMI, NL, CH, NL, EXPORT, SEMI>>

\* The 'game_name' values a request may carry.
GameNames == {<<CH>>}

\* The 'content' values a request may carry.
Contents == {<<CH, SEMI>>}

\* The file update_gamezone_with_game writes.
GameTemplate(game_name) ==
    <<IMPORT, SEMI, NL>> \o game_name \o <<NL, EXPORT, SEMI>>

EmptyDebug ==
    [idea |-> None, timestamp |-> None, claude_code_raw |-> None,
     claude_code |-> None, before_code |-> None, morph_code_raw |-> None,
     morph_code |-> None, written_code |-> None]

NoResponse ==
    [status |-> 0, success |-> "absent", error |-> "absent", game_size |-> -1]

ErrorResponse(status, message) ==
    [status |-> status, success |-> "absent", error |-> message, game_size |-> -1]

NoRouteResponse ==
    [route |-> "none", status |-> 0, success |-> "absent", error |-> "absent",
     content |-> None]

RouteResponse(route, status, success, error, content) ==
    [route |-> route, status |-> status, success |-> success, error |-> error,
     content |-> content]

\* datetime.now().isoformat(): the clock is the number of requests received.
Timestamp(n) == <<ToString(n)>>

Call(op, ok, arg) == [op |-> op, ok |-> ok, arg |-> arg]

SrvInit ==
    /\ dev_server_wrapper = 0
    /\ last_generation_debug = EmptyDebug
    /\ gamezone = RepoGameZone
    /\ detailed_log = FALSE
    /\ pc = [h \in Handlers |-> "idle"]
    /\ game_idea = [h \in Handlers |-> None]
    /\ game_html = [h \in Handlers |-> None]
    /\ react_code = [h \in Handlers |-> None]
    /\ current_gamezone = [h \in Handlers |-> None]
    /\ updated_gamezone = [h \in Handlers |-> None]
    /\ response = [h \in Handlers |-> NoResponse]
    /\ route_response = NoRouteResponse
    /\ calls = [h \in Handlers |-> <<>>]
    /\ disturbed = [h \in Handlers |-> FALSE]
    /\ written_before = [h \in Handlers |-> None]
    /\ requests = 0

\* The handler ends with this response.
Respond(h, r) ==
    /\ response' = [response EXCEPT ![h] = r]
    /\ pc' = [pc EXCEPT ![h] = "done"]

\* The external call is recorded in the run's history.
Record(h, c) == calls' = [calls EXCEPT ![h] = Append(@, c)]

-----------------------------------------------------------------------------
(* The server: routes *)

\* Mutant of RouteFrame: a route records the artifact's content in the
\* sidecar as written.
RouteFrame_records ==
    /\ last_generation_debug' =
           [last_generation_debug EXCEPT !.written_code = gamezone']
    /\ UNCHANGED <<detailed_log, pc, game_idea, game_html,
                   react_code, current_gamezone, updated_gamezone, response,
                   calls, disturbed, written_before>>

\* What a one-step route leaves alone.
RouteFrame ==
    UNCHANGED <<last_generation_debug, detailed_log, pc, game_idea, game_html,
                react_code, current_gamezone, updated_gamezone, response,
                calls, disturbed, written_before>>

\* One more HTTP request is served.
Request ==
    /\ requests < MaxRequests
    /\ requests' = requests + 1

\* Mutant of connect_to_repo: a failed /connect drops the connection.
connect_to_repo_drops(ok) ==
    /\ Request
    /\ IF ok
       THEN /\ dev_server_wrapper' = requests + 1
            /\ gamezone' = RepoGameZone
            /\ route_response' =
                   RouteResponse("connect", 200, "true", "absent", None)
       ELSE /\ route_response' =
                   RouteResponse("connect", 500, "false", "exception", None)
            /\ dev_server_wrapper' = 0
            /\ UNCHANGED gamezone
    /\ RouteFrame

\* POST /connect; ok: create_repository and request_dev_server both returned
connect_to_repo(ok) ==
    /\ Request
    /\ IF ok
       THEN /\ dev_server_wrapper' = requests + 1
            /\ gamezone' = RepoGameZone
            /\ route_response' =
                   RouteResponse("connect", 200, "true", "absent", None)
       ELSE /\ route_response' =
                   RouteResponse("connect", 500, "false", "exception", None)
            /\ UNCHANGED <<dev_server_wrapper, gamezone>>
    /\ RouteFrame

\* GET /status
get_status ==
    /\ Request
    /\ route_response' =
           RouteResponse("status", 200, "absent", "absent",
                         IF dev_server_wrapper # 0 THEN <<"connected">>
                         ELSE <<"not connected">>)
    /\ UNCHANGED <<dev_server_wrapper, gamezone>>
    /\ RouteFrame

\* GET /gamezone/read
read_gamezone(ok) ==
    /\ Request
    /\ route_response' =
           IF dev_server_wrapper = 0
           THEN RouteResponse("read", 400, "absent",
                              "Not connected to dev server", None)
           ELSE IF ok
           THEN RouteResponse("read", 200, "true", "absent", gamezone)
           ELSE RouteResponse("read", 500, "absent", "exception", None)
    /\ UNCHANGED <<dev_server_wrapper, gamezone>>
    /\ RouteFrame

\* POST /gamezone/update; data is the request's 'game_name', or None
update_gamezone(data, ok) ==
    /\ Request
    /\ IF dev_server_wrapper = 0
       THEN /\ route_response' =
                   RouteResponse("update", 400, "absent",
                                 "Not connected to dev server", None)
            /\ UNCHANGED gamezone
       ELSE IF data = None
       THEN /\ route_response' =
                   RouteResponse("update", 400, "absent",
                                 "Missing 'game_name'", None)
            /\ UNCHANGED gamezone
       ELSE IF ok
       THEN /\ gamezone' = GameTemplate(data)
            /\ route_response' =
                   RouteResponse("update", 200, "true", "absent", None)
       ELSE /\ route_response' =
                   RouteResponse("update", 500, "absent", "exception", None)
            /\ UNCHANGED gamezone
    /\ UNCHANGED dev_server_wrapper
    /\ RouteFrame

\* Mutant of write_gamezone: the content is written before the request is
\* validated.
write_gamezone_unchecked(data, ok) ==
    /\ Request
    /\ IF dev_server_wrapper = 0
       THEN /\ route_response' =
                   RouteResponse("write", 400, "absent",
                                 "Not connected to dev server", None)
            /\ UNCHANGED gamezone
       ELSE IF ok
       THEN /\ gamezone' = data
            /\ route_response' =
                   IF data = None
                   THEN RouteResponse("write", 400, "absent",
                                      "Missing 'content'", None)
                   ELSE RouteResponse("write", 200, "true", "absent", None)
       ELSE /\ route_response' =
                   RouteResponse("write", 500, "absent", "exception", None)
            /\ UNCHANGED gamezone
    /\ UNCHANGED dev_server_wrapper
    /\ RouteFrame

\* POST /gamezone/write; data is the request's 'content', or None
write_gamezone(data, ok) ==
    /\ Request
    /\ IF dev_server_wrapper = 0
       THEN /\ route_response' =
                   RouteResponse("write", 400, "absent",
                                 "Not connected to dev server", None)
            /\ UNCHANGED gamezone
       ELSE IF data = None
       THEN /\ route_response' =
                   RouteResponse("write", 400, "absent",
                                 "Missing 'content'", None)
            /\ UNCHANGED gamezone
       ELSE IF ok
       THEN /\ gamezone' = data
            /\ route_response' =
                   RouteResponse("write", 200, "true", "absent", None)
       ELSE /\ route_response' =
                   RouteResponse("write", 500, "absent", "exception", None)
            /\ UNCHANGED gamezone
    /\ UNCHANGED dev_server_wrapper
    /\ RouteFrame

\* GET /game-log; exists: game_generation.log is still in the working
\* directory, ok: it can be opened and read
get_game_log(exists, ok) ==
    /\ Request
    /\ route_response' =
           IF ~exists
           THEN RouteResponse("game-log", 200, "true", "absent", <<>>)
           ELSE IF ok
           THEN RouteResponse("game-log", 200, "true", "absent",
                              <<"recent_logs">>)
           ELSE RouteResponse("game-log", 500, "absent", "exception", None)
    /\ UNCHANGED <<dev_server_wrapper, gamezone>>
    /\ RouteFrame

\* GET /detailed-log; ok: detailed_game_logs.txt can be opened and read
get_detailed_log(ok) ==
    /\ Request
    /\ route_response' =
           IF ~detailed_log
           THEN RouteResponse("detailed-log", 200, "true", "absent", <<>>)
           ELSE IF ok
           THEN RouteResponse("detailed-log", 200, "true", "absent",
                              <<"recent_detailed_logs">>)
           ELSE RouteResponse("detailed-log", 500, "absent", "exception", None)
    /\ UNCHANGED <<dev_server_wrapper, gamezone>>
    /\ RouteFrame

\* GET /last-debug
get_last_debug ==
    /\ Request
    /\ route_response' =
           RouteResponse("last-debug", 200, "true", "absent",
                         last_generation_debug)
    /\ UNCHANGED <<dev_server_wrapper, gamezone>>
    /\ RouteFrame

\* The handler is inside a /generate-game request.
InProgress(h) == pc[h] \notin {"idle", "done"}

\* The idle handler thread that takes the next request (the threads are
\* interchangeable: the first idle one, in a fixed order).
FreeHandler ==
    IF ~InProgress("h1") THEN "h1" ELSE "h2"

\* POST /generate-game, up to the call of the generator
generate_game(h, body) ==
    /\ ~InProgress(h)
    /\ h = FreeHandler
    /\ Request
    /\ calls' = [calls EXCEPT ![h] = <<>>]
    /\ written_before' =
           [written_before EXCEPT ![h] = last_generation_debug.written_code]
    /\ disturbed' =
           [q \in Handlers |->
               IF q = h THEN \E o \in Handlers \ {h} : InProgress(o)
               ELSE disturbed[q] \/ pc[q] # "idle"]
    /\ game_html' = [game_html EXCEPT ![h] = None]
    /\ react_code' = [react_code EXCEPT ![h] = None]
    /\ current_gamezone' = [current_gamezone EXCEPT ![h] = None]
    /\ updated_gamezone' = [updated_gamezone EXCEPT ![h] = None]
    /\ IF dev_server_wrapper = 0
       THEN /\ Respond(h, ErrorResponse(400, "Not connected to dev server"))
            /\ game_idea' = [game_idea EXCEPT ![h] = None]
       ELSE IF body = None
       THEN /\ Respond(h, ErrorResponse(400, "Missing 'game_idea'"))
            /\ game_idea' = [game_idea EXCEPT ![h] = None]
       ELSE /\ game_idea' = [game_idea EXCEPT ![h] = body]
            /\ pc' = [pc EXCEPT ![h] = "generating"]
            /\ response' = [response EXCEPT ![h] = NoResponse]
    /\ UNCHANGED <<dev_server_wrapper, last_generation_debug, gamezone,
                   detailed_log,
                   route_response>>

\* Mutant of LenRaises: the length of an absent text is taken without error.
LenRaises_never(html) == FALSE

\* len(game_html) raises TypeError
LenRaises(html) == html = None

\* Mutant of GeneratorReturns: the snapshot starts a fresh record, the
\* fields of the previous run are unset.
GeneratorReturns_fresh(h, out) ==
    /\ pc[h] = "generating"
    /\ game_html' = [game_html EXCEPT ![h] = out]
    /\ Record(h, Call("generate", out # None, game_idea[h]))
    /\ LET claude == sanitize_react_code(out, "Claude").text
       IN  /\ last_generation_debug' =
                  [EmptyDebug EXCEPT
                      !.idea = game_idea[h],
                      !.timestamp = Timestamp(requests),
                      !.claude_code_raw = out,
                      !.claude_code = claude]
           /\ IF claude = <<>>
              THEN Respond(h, ErrorResponse(500, "Failed to generate game HTML"))
              ELSE IF LenRaises(out)
              THEN Respond(h, ErrorResponse(500, "TypeError"))
              ELSE /\ pc' = [pc EXCEPT ![h] = "logging"]
                   /\ UNCHANGED response
    /\ UNCHANGED <<dev_server_wrapper, gamezone, detailed_log, game_idea,
                   react_code, current_gamezone, updated_gamezone,
                   disturbed, written_before, requests,
                   route_response>>

\* generate_game_with_anthropic returns; the snapshot of its output
GeneratorReturns(h, out) ==
    /\ pc[h] = "generating"
    /\ game_html' = [game_html EXCEPT ![h] = out]
    /\ Record(h, Call("generate", out # None, game_idea[h]))
    /\ LET claude == sanitize_react_code(out, "Claude").text
       IN  /\ last_generation_debug' =
                  [last_generation_debug EXCEPT
                      !.idea = game_idea[h],
                      !.timestamp = Timestamp(requests),
                      !.claude_code_raw = out,
                      !.claude_code = claude]
           /\ IF claude = <<>>
              THEN Respond(h, ErrorResponse(500, "Failed to generate game HTML"))
              ELSE IF LenRaises(out)
              THEN Respond(h, ErrorResponse(500, "TypeError"))
              ELSE /\ pc' = [pc EXCEPT ![h] = "logging"]
                   /\ UNCHANGED response
    /\ UNCHANGED <<dev_server_wrapper, gamezone, detailed_log, game_idea,
                   react_code, current_gamezone, updated_gamezone,
                   disturbed, written_before, requests,
                   route_response>>

\* Mutant of WriteDetailedLog: a failed append ends the run with an error.
WriteDetailedLog_fatal(h, ok) ==
    /\ pc[h] = "logging"
    /\ detailed_log' = (detailed_log \/ ok)
    /\ IF ok
       THEN /\ react_code' =
                   [react_code EXCEPT ![h] = last_generation_debug.claude_code]
            /\ pc' = [pc EXCEPT ![h] = "reading"]
            /\ UNCHANGED response
       ELSE /\ Respond(h, ErrorResponse(500, "exception"))
            /\ UNCHANGED react_code
    /\ UNCHANGED <<dev_server_wrapper, last_generation_debug, gamezone,
                   game_idea, game_html, current_gamezone, updated_gamezone,
                   calls, disturbed, written_before, requests,
                   route_response>>

\* the append to detailed_game_logs.txt, then the call of
\* apply_react_with_morph_to_gamezone
WriteDetailedLog(h, ok) ==
    /\ pc[h] = "logging"
    /\ detailed_log' = (detailed_log \/ ok)
    /\ react_code' = [react_code EXCEPT ![h] = last_generation_debug.claude_code]
    /\ pc' = [pc EXCEPT ![h] = "reading"]
    /\ UNCHANGED <<dev_server_wrapper, last_generation_debug, gamezone,
                   game_idea, game_html, current_gamezone, updated_gamezone,
                   response, calls, disturbed, written_before, requests,
                   route_response>>

\* The response after apply_react_with_morph_to_gamezone returned False.
ApplyFailed == ErrorResponse(500, "Failed to deploy to Freestyle")

\* Mutant of ReadReturns: a gate, one run at a time between the read and the
\* write of the artifact.
ReadReturns_gated(h, ok) ==
    /\ pc[h] = "reading"
    /\ \A q \in Handlers \ {h} : pc[q] \notin {"patching", "writing"}
    /\ Record(h, Call("read", ok, <<>>))
    /\ IF ok
       THEN /\ current_gamezone' = [current_gamezone EXCEPT ![h] = gamezone]
            /\ last_generation_debug' =
                   [last_generation_debug EXCEPT !.before_code = gamezone]
            /\ pc' = [pc EXCEPT ![h] = "patching"]
            /\ UNCHANGED response
       ELSE /\ Respond(h, ApplyFailed)
            /\ UNCHANGED <<current_gamezone, last_generation_debug>>
    /\ UNCHANGED <<dev_server_wrapper, gamezone, detailed_log, game_idea,
                   game_html, react_code, updated_gamezone, disturbed,
                   written_before, requests,
                   route_response>>

\* dev_server_wrapper.read_gamezone() returns or raises
ReadReturns(h, ok) ==
    /\ pc[h] = "reading"
    /\ Record(h, Call("read", ok, <<>>))
    /\ IF ok
       THEN /\ current_gamezone' = [current_gamezone EXCEPT ![h] = gamezone]
            /\ last_generation_debug' =
                   [last_generation_debug EXCEPT !.before_code = gamezone]
            /\ pc' = [pc EXCEPT ![h] = "patching"]
            /\ UNCHANGED response
       ELSE /\ Respond(h, ApplyFailed)
            /\ UNCHANGED <<current_gamezone, last_generation_debug>>
    /\ UNCHANGED <<dev_server_wrapper, gamezone, detailed_log, game_idea,
                   game_html, react_code, updated_gamezone, disturbed,
                   written_before, requests,
                   route_response>>

\* Mutant of AfterPatch: the write is attempted although the patch call raised.
AfterPatch_write_anyway(ok) == "writing"

\* Mutant of AfterPatch: a failed patch call is tried again.
AfterPatch_retry(ok) == IF ok THEN "writing" ELSE "patching"

\* Where the handler goes once the patch call is over.
AfterPatch(ok) == IF ok THEN "writing" ELSE "done"

\* morph_client.chat.completions.create returns or raises
MorphReturns(h, ok, raw) ==
    /\ pc[h] = "patching"
    /\ Record(h, Call("patch", ok, react_code[h]))
    /\ pc' = [pc EXCEPT ![h] = AfterPatch(ok)]
    /\ IF ok
       THEN LET updated == sanitize_react_code(raw, "Morph").text
            IN  /\ updated_gamezone' = [updated_gamezone EXCEPT ![h] = updated]
                /\ last_generation_debug' =
                       [last_generation_debug EXCEPT
                           !.morph_code_raw = raw,
                           !.morph_code = updated]
       ELSE UNCHANGED <<updated_gamezone, last_generation_debug>>
    /\ response' = [response EXCEPT ![h] =
                       IF AfterPatch(ok) = "done" THEN ApplyFailed ELSE @]
    /\ UNCHANGED <<dev_server_wrapper, gamezone, detailed_log, game_idea,
                   game_html, react_code, current_gamezone, disturbed,
                   written_before, requests,
                   route_response>>

\* Mutant of WrittenCode: the candidate is recorded, not the patched text.
WrittenCode_candidate(h) == react_code[h]

\* The text recorded as written_code after the write.
WrittenCode(h) == updated_gamezone[h]

\* Mutant of GameSize: the length of the text written to the File Store.
GameSize_written(h) == CharLen(updated_gamezone[h])

\* The size reported on success.
GameSize(h) == CharLen(game_html[h])

\* dev_server_wrapper.write_gamezone(updated_gamezone) returns or raises
WriteReturns(h, ok) ==
    /\ pc[h] = "writing"
    /\ Record(h, Call("write", ok, updated_gamezone[h]))
    /\ IF ok
       THEN /\ gamezone' = updated_gamezone[h]
            /\ last_generation_debug' =
                   [last_generation_debug EXCEPT !.written_code = WrittenCode(h)]
            /\ Respond(h, [status |-> 200, success |-> "true",
                           error |-> "absent", game_size |-> GameSize(h)])
       ELSE /\ Respond(h, ApplyFailed)
            /\ UNCHANGED <<gamezone, last_generation_debug>>
    /\ UNCHANGED <<dev_server_wrapper, detailed_log, game_idea, game_html,
                   react_code, current_gamezone, updated_gamezone, disturbed,
                   written_before, requests,
                   route_response>>

-----------------------------------------------------------------------------
(* FreestyleDevController (src/freestyle_dev.py): state *)

\* Method calls over the controller's life.
MaxOps == 4

\* The 'repo_id' arguments request_dev_server may be given; 0 is None.
RepoArgs == {0, 100}

\* No method has been called yet.
NoCall ==
    [op |-> "none", raised |-> FALSE, result |-> "none", remote |-> "none",
     server |-> 0]

\* The outcome of a method call: what it raised or returned, and the remote
\* call it issued (to which dev server), if any.
Outcome(op, raised, result, remote, server) ==
    [op |-> op, raised |-> raised, result |-> result, remote |-> remote,
     server |-> server]

\* raise ValueError("No dev server available. Request one first.")
NoDevServer(op) == Outcome(op, TRUE, "ValueError", "none", 0)

\* The text of the games array that add_new_game_to_list looks for, and the
\* rest of a file, as tokens.
GAMES == "GAMES"
CODE == "CODE"
NEWGAMES == "NEWGAMES"
ENDGAMES == "ENDGAMES"

\* src/App.js of the repository.
RepoAppJs == <<CODE, GAMES, CODE>>

\* No add_new_game_to_list call has been made yet.
NoAdd == [returned |-> "none", wrote |-> None, game_name |-> ""]

\* __init__ of the controller (lines 21-22), and the repository's files
CtlInit ==
    /\ repo_id = 0
    /\ dev_server = 0
    /\ shut_down = {}
    /\ ctl_last = NoCall
    /\ app_js = RepoAppJs
    /\ add_last = NoAdd
    /\ ops = 0

\* One more call is made.
Op ==
    /\ ops < MaxOps
    /\ ops' = ops + 1

-----------------------------------------------------------------------------
(* FreestyleDevController: methods *)

\* What a controller method leaves alone besides the controller's fields.
CtlFrame == UNCHANGED <<app_js, add_last>>

\* create_repository(name)
create_repository(ok) ==
    /\ Op
    /\ IF ok
       THEN /\ repo_id' = ops + 1
            /\ ctl_last' = Outcome("create_repository", FALSE, "repo_id",
                                   "create_repository", 0)
       ELSE /\ ctl_last' = Outcome("create_repository", FALSE, "None",
                                   "create_repository", 0)
            /\ UNCHANGED repo_id
    /\ UNCHANGED <<dev_server, shut_down>>
    /\ CtlFrame

\* request_dev_server(repo_id=arg)
request_dev_server(arg, ok) ==
    /\ Op
    /\ IF arg = 0 /\ repo_id = 0
       THEN /\ ctl_last' = Outcome("request_dev_server", TRUE, "ValueError",
                                   "none", 0)
            /\ UNCHANGED <<repo_id, dev_server>>
       ELSE /\ repo_id' = (IF arg # 0 THEN arg ELSE repo_id)
            /\ IF ok
               THEN /\ dev_server' = ops + 1
                    /\ ctl_last' = Outcome("request_dev_server", FALSE,
                                           "dev_server", "request_dev_server",
                                           ops + 1)
               ELSE /\ ctl_last' = Outcome("request_dev_server", FALSE,
                                           "None", "request_dev_server", 0)
                    /\ UNCHANGED dev_server
    /\ UNCHANGED shut_down
    /\ CtlFrame

\* Mutant of ServerMethod: the guard on self.dev_server is dropped, so the
\* call is attempted on a controller without a dev server.
ServerMethod_unguarded(op, remote, ok, returned, failed) ==
    /\ Op
    /\ ctl_last' = Outcome(op, FALSE, IF ok THEN returned ELSE failed, remote,
                           dev_server)
    /\ UNCHANGED <<repo_id, dev_server, shut_down>>
    /\ CtlFrame

\* The shape shared by the methods that make one call on self.dev_server:
\* the guard, the call, the value returned when it returns and the value
\* returned when it raises.
ServerMethod(op, remote, ok, returned, failed) ==
    /\ Op
    /\ ctl_last' =
           IF dev_server = 0 THEN NoDevServer(op)
           ELSE Outcome(op, FALSE, IF ok THEN returned ELSE failed, remote,
                        dev_server)
    /\ UNCHANGED <<repo_id, dev_server, shut_down>>
    /\ CtlFrame

\* upload_env_file(env_content); given: env_content is not None, found: the
\* local .env file exists
upload_env_file(given, found, ok) ==
    IF dev_server # 0 /\ ~given /\ ~found
    THEN /\ Op
         /\ ctl_last' = Outcome("upload_env_file", FALSE, "False", "none", 0)
         /\ UNCHANGED <<repo_id, dev_server, shut_down>>
         /\ CtlFrame
    ELSE ServerMethod("upload_env_file", "fs.write_file", ok, "True", "False")

\* edit_game_zone(new_content)
edit_game_zone(ok) ==
    ServerMethod("edit_game_zone", "fs.write_file", ok, "True", "False")

\* read_file(file_path)
read_file(ok) ==
    ServerMethod("read_file", "fs.read_file", ok, "content", "None")

\* list_files(directory)
list_files(ok) ==
    ServerMethod("list_files", "fs.ls", ok, "files", "None")

\* run_command(command, background)
run_command(ok) ==
    ServerMethod("run_command", "process.exec", ok, "result", "None")

\* commit_and_push(message)
commit_and_push(ok) ==
    ServerMethod("commit_and_push", "commit_and_push", ok, "True", "False")

\* shutdown()
shutdown(ok) ==
    /\ Op
    /\ IF dev_server = 0
       THEN /\ ctl_last' = Outcome("shutdown", FALSE, "True", "none", 0)
            /\ UNCHANGED shut_down
       ELSE IF ok
       THEN /\ ctl_last' = Outcome("shutdown", FALSE, "True", "shutdown",
                                   dev_server)
            /\ shut_down' = shut_down \cup {dev_server}
       ELSE /\ ctl_last' = Outcome("shutdown", FALSE, "False", "shutdown",
                                   dev_server)
            /\ UNCHANGED shut_down
    /\ UNCHANGED <<repo_id, dev_server>>
    /\ CtlFrame

-----------------------------------------------------------------------------
(* add_new_game_to_list (src/quick_edit_example.py) *)

\* The 'game_name' arguments.
GameTitles == {"Flappy Bird", "Doom"}

\* new_games_section: the games array with game_name as its last entry
NewGamesSection(game_name) == <<NEWGAMES, game_name, ENDGAMES>>

RECURSIVE Replace(_, _, _)
\* text.replace(tok, by)
Replace(text, tok, by) ==
    IF text = <<>> THEN <<>>
    ELSE (IF Head(text) = tok THEN by ELSE <<Head(text)>>)
             \o Replace(Tail(text), tok, by)

\* updated_app
UpdatedApp(current_app, game_name) ==
    Replace(current_app, GAMES, NewGamesSection(game_name))

\* add_new_game_to_list(repo_id=arg, game_name), on a controller of its own
add_new_game_to_list(arg, game_name, server_ok, read_ok, write_ok) ==
    /\ Op
    /\ IF arg = 0
       THEN /\ add_last' = [returned |-> "ValueError", wrote |-> None,
                            game_name |-> game_name]
            /\ UNCHANGED app_js
       ELSE IF ~server_ok \/ ~read_ok \/ app_js = <<>>
       THEN /\ add_last' = [returned |-> "False", wrote |-> None,
                            game_name |-> game_name]
            /\ UNCHANGED app_js
       ELSE IF write_ok
       THEN /\ app_js' = UpdatedApp(app_js, game_name)
            /\ add_last' = [returned |-> "True",
                            wrote |-> UpdatedApp(app_js, game_name),
                            game_name |-> game_name]
       ELSE /\ add_last' = [returned |-> "False", wrote |-> None,
                            game_name |-> game_name]
            /\ UNCHANGED app_js
    /\ UNCHANGED <<repo_id, dev_server, shut_down, ctl_last>>

-----------------------------------------------------------------------------
(* Specifications *)

SanDefault ==
    /\ san_pc = "input"
    /\ san_raw = None
    /\ san_first = NoResult
    /\ san_second = NoResult

Init == SanDefault /\ SrvInit /\ CtlInit

Next ==
    \/ \E ok \in BOOLEAN : connect_to_repo(ok) /\ UNCHANGED <<san_vars, ctl_vars>>
    \/ get_status /\ UNCHANGED <<san_vars, ctl_vars>>
    \/ \E ok \in BOOLEAN : read_gamezone(ok) /\ UNCHANGED <<san_vars, ctl_vars>>
    \/ \E data \in GameNames \cup {None}, ok \in BOOLEAN :
           update_gamezone(data, ok) /\ UNCHANGED <<san_vars, ctl_vars>>
    \/ \E data \in Contents \cup {None}, ok \in BOOLEAN :
           write_gamezone(data, ok) /\ UNCHANGED <<san_vars, ctl_vars>>
    \/ \E exists \in BOOLEAN, ok \in BOOLEAN :
           get_game_log(exists, ok) /\ UNCHANGED <<san_vars, ctl_vars>>
    \/ \E ok \in BOOLEAN : get_detailed_log(ok) /\ UNCHANGED <<san_vars, ctl_vars>>
    \/ get_last_debug /\ UNCHANGED <<san_vars, ctl_vars>>
    \/ \E h \in Handlers, body \in Ideas \cup {None} :
           generate_game(h, body) /\ UNCHANGED <<san_vars, ctl_vars>>
    \/ \E h \in Handlers, out \in GenOutputs \cup {None} :
           GeneratorReturns(h, out) /\ UNCHANGED <<san_vars, ctl_vars>>
    \/ \E h \in Handlers, ok \in BOOLEAN :
           WriteDetailedLog(h, ok) /\ UNCHANGED <<san_vars, ctl_vars>>
    \/ \E h \in Handlers, ok \in BOOLEAN :
           ReadReturns(h, ok) /\ UNCHANGED <<san_vars, ctl_vars>>
    \/ \E h \in Handlers, ok \in BOOLEAN :
           \E raw \in MorphOutputs(current_gamezone[h], react_code[h]) :
               MorphReturns(h, ok, raw) /\ UNCHANGED <<san_vars, ctl_vars>>
    \/ \E h \in Handlers, ok \in BOOLEAN :
           WriteReturns(h, ok) /\ UNCHANGED <<san_vars, ctl_vars>>

Spec == Init /\ [][Next]_vars

\* The next step of the /generate-game run of handler h: an external call
\* or the log append returns or raises.  Whether a call returns or raises
\* decides where the run goes; of the texts a call may return, one is kept.
RunStep(h) ==
    \/ \E out \in {GenBare, None} : GeneratorReturns(h, out)
    \/ \E ok \in BOOLEAN : WriteDetailedLog(h, ok)
    \/ \E ok \in BOOLEAN : ReadReturns(h, ok)
    \/ \E ok \in BOOLEAN : MorphReturns(h, ok, react_code[h])
    \/ \E ok \in BOOLEAN : WriteReturns(h, ok)

\* Every blocking call of a run eventually returns or raises.
CallsReturn == \A h \in Handlers : WF_vars(RunStep(h) /\ UNCHANGED <<san_vars, ctl_vars>>)

\* The requests and steps that move a /generate-game run: /connect, the
\* start of a run and the steps of the runs.
LiveNext ==
    \/ \E ok \in BOOLEAN : connect_to_repo(ok) /\ UNCHANGED <<san_vars, ctl_vars>>
    \/ \E h \in Handlers, body \in {<<"snake">>, None} :
           generate_game(h, body) /\ UNCHANGED <<san_vars, ctl_vars>>
    \/ \E h \in Handlers : RunStep(h) /\ UNCHANGED <<san_vars, ctl_vars>>

\* The /generate-game pipeline, with every blocking call eventually
\* returning.
LiveSpec == Init /\ [][LiveNext]_vars /\ CallsReturn

\* The calls a script makes on its controller, and add_new_game_to_list.
CtlNext ==
    \/ \E ok \in BOOLEAN :
           create_repository(ok) /\ UNCHANGED <<san_vars, srv_vars>>
    \/ \E arg \in RepoArgs, ok \in BOOLEAN :
           request_dev_server(arg, ok) /\ UNCHANGED <<san_vars, srv_vars>>
    \/ \E given \in BOOLEAN, found \in BOOLEAN, ok \in BOOLEAN :
           upload_env_file(given, found, ok)
               /\ UNCHANGED <<san_vars, srv_vars>>
    \/ \E ok \in BOOLEAN :
           edit_game_zone(ok) /\ UNCHANGED <<san_vars, srv_vars>>
    \/ \E ok \in BOOLEAN : read_file(ok) /\ UNCHANGED <<san_vars, srv_vars>>
    \/ \E ok \in BOOLEAN : list_files(ok) /\ UNCHANGED <<san_vars, srv_vars>>
    \/ \E ok \in BOOLEAN :
           run_command(ok) /\ UNCHANGED <<san_vars, srv_vars>>
    \/ \E ok \in BOOLEAN :
           commit_and_push(ok) /\ UNCHANGED <<san_vars, srv_vars>>
    \/ \E ok \in BOOLEAN : shutdown(ok) /\ UNCHANGED <<san_vars, srv_vars>>
    \/ \E arg \in RepoArgs, game_name \in GameTitles :
           \E server_ok \in BOOLEAN, read_ok \in BOOLEAN, write_ok \in BOOLEAN :
               add_new_game_to_list(arg, game_name, server_ok, read_ok,
                                    write_ok)
                   /\ UNCHANGED <<san_vars, srv_vars>>

\* The controller and the scripts.
CtlSpec == Init /\ [][CtlNext]_vars

SanNext ==
    \/ SanitizeOnce /\ UNCHANGED <<srv_vars, ctl_vars>>
    \/ SanitizeTwice /\ UNCHANGED <<srv_vars, ctl_vars>>

SanInit == SanInputs /\ SrvInit /\ CtlInit

SanSpec == SanInit /\ [][SanNext]_vars

-----------------------------------------------------------------------------
(* Properties of the sanitizer (checked under SanSpec) *)

\* The raw text as sanitize_react_code sees it (raw or "").
SanInput == OrEmpty(san_raw)

\* text.endswith(suffix)
EndsWith(text, suffix) ==
    /\ Len(text) >= Len(suffix)
    /\ SubSeq(text, Len(text) - Len(suffix) + 1, Len(text)) = suffix

\* x in fixes
HasFix(result, x) ==
    \E i \in 1..Len(result.meta.fixes) : result.meta.fixes[i] = x

\* C7: for every raw input that contains a fence marker, the text returned by
\* sanitize_react_code contains no fence marker.
C7_NoFenceLeft ==
    (san_pc # "input" /\ Contains(SanInput, FENCE))
        => ~Contains(san_first.text, FENCE)

\* C7, the input of the failing case: two fenced blocks, the second one empty
\* ("```\n``````"); the slice between the first opener and the last marker
\* keeps the marker in between.
C7_Witness ==
    /\ san_pc = "once"
    /\ san_raw = <<FENCE, NL, FENCE, FENCE>>
    /\ san_first.meta.stripped_fences
    /\ Contains(san_first.text, FENCE)

C9_Idempotent ==
    san_pc = "twice"
        => /\ san_second.text = san_first.text
           /\ ~san_second.meta.stripped_fences
           /\ san_second.meta.fixes = <<>>

\* C9, the failing case: the first pass leaves a fence marker (C7), which the
\* second pass strips.
C9_Witness ==
    /\ san_pc = "twice"
    /\ Contains(san_first.text, FENCE)
    /\ san_second.meta.stripped_fences
    /\ san_second.text # san_first.text

C11_EmptyUnchanged ==
    (san_pc # "input" /\ san_raw \in {None, <<>>})
        => /\ san_first.text = san_raw
           /\ san_first.meta.fixes = <<>>
           /\ ~san_first.meta.stripped_fences

\* C11, the failing case: the empty text comes back as the import line and
\* the export trailer, with both fixes reported.
C11_Witness ==
    /\ san_pc = "once"
    /\ san_raw = <<>>
    /\ san_first.text = <<IMPORT, REST>> \o ExportTrailer
    /\ san_first.meta.fixes = <<"added_import", "added_export">>
    /\ ~san_first.meta.stripped_fences

\* Idempotence does hold for every input whose first pass left no marker.
IdempotentWithoutFence ==
    (san_pc = "twice" /\ ~Contains(san_first.text, FENCE))
        => /\ san_second.text = san_first.text
           /\ ~san_second.meta.stripped_fences
           /\ san_second.meta.fixes = <<>>

-----------------------------------------------------------------------------
(* Properties of the /generate-game pipeline (checked under Spec) *)

\* The run of handler h has ended with a failure response.
Failed(h) ==
    /\ pc[h] = "done"
    /\ response[h].status >= 400
    /\ response[h].success # "true"
    /\ response[h].error # "absent"

\* The run of handler h has reported success.
Succeeded(h) == pc[h] = "done" /\ response[h].success = "true"

\* The run of handler h made the call op, with this outcome.
Called(h, op, ok) ==
    \E i \in 1..Len(calls[h]) : calls[h][i].op = op /\ calls[h][i].ok = ok

\* The run of handler h made the call op.
Attempted(h, op) == Called(h, op, TRUE) \/ Called(h, op, FALSE)

\* C1, as claimed: written_code equals morph_code in every reachable state.
C1_NeverDiverge ==
    last_generation_debug.written_code = last_generation_debug.morph_code

\* C1, amended: written_code is assigned only by a run whose File Store
\* write succeeded, and the value assigned is exactly that run's sanitized
\* patch output, the text the same run stored in morph_code at its patch step
\* and passed to the write call.
C1_WrittenIsPatchOutput ==
    [][/\ (last_generation_debug'.written_code
               # last_generation_debug.written_code)
           => \E h \in Handlers :
                  /\ pc[h] = "writing"
                  /\ Succeeded(h)'
                  /\ last_generation_debug'.written_code = updated_gamezone[h]
                  /\ gamezone' = updated_gamezone[h]
       /\ (last_generation_debug'.morph_code
               # last_generation_debug.morph_code)
           => \E h \in Handlers :
                  /\ pc[h] = "patching"
                  /\ pc'[h] = "writing"
                  /\ last_generation_debug'.morph_code = updated_gamezone'[h]
                  /\ updated_gamezone'[h] =
                         sanitize_react_code(
                             last_generation_debug'.morph_code_raw, "Morph").text
      ]_vars

\* C1: a run has written a patch output that sanitization changed, and
\* recorded it.
C1_Witness ==
    \E h \in Handlers :
        /\ Succeeded(h)
        /\ last_generation_debug.written_code = updated_gamezone[h]
        /\ last_generation_debug.written_code # react_code[h]
        /\ last_generation_debug.written_code
               # last_generation_debug.morph_code_raw
        /\ gamezone = last_generation_debug.written_code

\* C2: a run whose generator call fails ends with a failure response and
\* performs no write to the File Store.
C2_GenerationFailure ==
    \A h \in Handlers :
        Called(h, "generate", FALSE)
            => /\ Failed(h)
               /\ ~Attempted(h, "write")
               /\ Len(calls[h]) = 1

\* C2: a run has ended on a failed generator call.
C2_Witness ==
    \E h \in Handlers :
        /\ Called(h, "generate", FALSE)
        /\ game_html[h] = None
        /\ response[h].status = 500
        /\ last_generation_debug.claude_code_raw = None

\* C3: a run whose patch call fails ends with a failure response, performs
\* no write to the File Store, and (no other run interfering) leaves
\* written_code as it was before the run.
C3_PatchFailure ==
    \A h \in Handlers :
        Called(h, "patch", FALSE)
            => /\ Failed(h)
               /\ ~Attempted(h, "write")
               /\ ~disturbed[h]
                      => last_generation_debug.written_code = written_before[h]

\* C3: a run has ended on a failed patch call after an earlier run had set
\* written_code.
C3_Witness ==
    \E h \in Handlers :
        /\ Called(h, "patch", FALSE)
        /\ pc[h] = "done"
        /\ ~disturbed[h]
        /\ written_before[h] # None
        /\ last_generation_debug.written_code = written_before[h]
        /\ last_generation_debug.claude_code # None

\* C4: when a run not interleaved with another reports success, written_code
\* is exactly the text this run passed to the File Store write call, and
\* equals morph_code.
C4_SuccessRecordsWrite ==
    \A h \in Handlers :
        (Succeeded(h) /\ ~disturbed[h])
            => LET w == calls[h][Len(calls[h])]
               IN  /\ w.op = "write"
                   /\ w.ok
                   /\ last_generation_debug.written_code = w.arg
                   /\ last_generation_debug.written_code
                          = last_generation_debug.morph_code

\* C4: an undisturbed run has reported success on a patch output that
\* sanitization changed.
C4_Witness ==
    \E h \in Handlers :
        /\ Succeeded(h)
        /\ ~disturbed[h]
        /\ last_generation_debug.written_code # None
        /\ last_generation_debug.written_code # react_code[h]
        /\ last_generation_debug.morph_code
               # last_generation_debug.morph_code_raw

\* The order of the external calls of one run.
CallOrder == <<"generate", "read", "patch", "write">>

\* The number of external calls that have returned when a handler is at pc.
CallsReturned(at) ==
    CASE at = "generating" -> 0
      [] at = "logging" -> 1
      [] at = "reading" -> 1
      [] at = "patching" -> 2
      [] at = "writing" -> 3

\* C5: within one run the external calls happen only in the order generate,
\* read, patch, write, and each is attempted only if every earlier one of the
\* run returned successfully.
C5_CallOrder ==
    \A h \in Handlers :
        /\ Len(calls[h]) <= Len(CallOrder)
        /\ \A i \in 1..Len(calls[h]) :
               /\ calls[h][i].op = CallOrder[i]
               /\ i < Len(calls[h]) => calls[h][i].ok
        /\ InProgress(h)
               => /\ Len(calls[h]) = CallsReturned(pc[h])
                  /\ \A i \in 1..Len(calls[h]) : calls[h][i].ok

\* C5: a run has made all four calls, the write after three successes.
C5_Witness ==
    \E h \in Handlers :
        /\ Len(calls[h]) = 4
        /\ \A i \in 1..3 : calls[h][i].ok
        /\ calls[h][4].op = "write"

\* C6: nothing is retried: in one run each of the four external calls is
\* made at most once, whatever its outcome.
C6_NoRetry ==
    \A h \in Handlers :
        \A i, j \in 1..Len(calls[h]) :
            calls[h][i].op = calls[h][j].op => i = j

\* C6: a run has ended on a failed call, made once.
C6_Witness ==
    \E h \in Handlers :
        /\ pc[h] = "done"
        /\ Len(calls[h]) = 3
        /\ ~calls[h][3].ok
        /\ Failed(h)

\* The last external call of the run of handler h.
LastCall(h) == calls[h][Len(calls[h])]

\* The run of handler h ended because its call op failed.
FailedAt(h, op) ==
    /\ Failed(h)
    /\ Len(calls[h]) > 0
    /\ LastCall(h).op = op
    /\ ~LastCall(h).ok

\* str(e) of the exception the adapter call op raised.
AdapterError(op) ==
    CASE op = "generate" -> "generator exception"
      [] op = "read" -> "read exception"
      [] op = "patch" -> "patch exception"
      [] op = "write" -> "write exception"

\* C12: when a run fails at a pipeline step (generation, read, patch or
\* write), the response identifies the step that failed and carries the error
\* message of the adapter call that failed.
C12_FailureNamesStep ==
    \A h \in Handlers :
        \A op \in {"generate", "read", "patch", "write"} :
            FailedAt(h, op) => response[h].error = AdapterError(op)

\* C12, the failing case: one run failed at the read and another at the
\* write, and the two responses are the same.
C12_Witness ==
    \E a, b \in Handlers :
        /\ FailedAt(a, "read")
        /\ FailedAt(b, "write")
        /\ response[a] = response[b]
        /\ response[a].error = "Failed to deploy to Freestyle"

\* C13, as claimed: on success game_size is the length of the text that was
\* written to the File Store in that run.
C13_SizeOfWritten ==
    \A h \in Handlers :
        Succeeded(h)
            => /\ LastCall(h).op = "write"
               /\ response[h].game_size = CharLen(LastCall(h).arg)

\* C13, amended: on success game_size is the length of the raw text the
\* generator returned in that run (the run's claude_code_raw), taken before
\* sanitization and patching.
C13_SizeOfGenerated ==
    \A h \in Handlers :
        Succeeded(h)
            => /\ response[h].game_size = CharLen(game_html[h])
               /\ ~disturbed[h]
                      => response[h].game_size =
                             CharLen(last_generation_debug.claude_code_raw)

\* C13: a run has reported success with the size of a generated text that is
\* shorter than the text it wrote.
C13_Witness ==
    \E h \in Handlers :
        /\ Succeeded(h)
        /\ game_html[h] = GenBare
        /\ response[h].game_size = CharLen(GenBare)
        /\ LastCall(h).op = "write"
        /\ gamezone = LastCall(h).arg
        /\ CharLen(LastCall(h).arg) > response[h].game_size

\* The response r reports a failure.
IsFailure(r) == r.status >= 400

\* C14: every failure outcome of every route is a structured response that
\* carries both success=false and an error message.
C14_StructuredFailure ==
    /\ IsFailure(route_response)
           => /\ route_response.success = "false"
              /\ route_response.error # "absent"
    /\ \A h \in Handlers :
           (pc[h] = "done" /\ IsFailure(response[h]))
               => /\ response[h].success = "false"
                  /\ response[h].error # "absent"

\* C14, the failing case: /gamezone/read has answered a failed read of the
\* connected dev server with an error message and no success field.
C14_Witness ==
    /\ dev_server_wrapper # 0
    /\ route_response.route = "read"
    /\ route_response.status = 500
    /\ route_response.error # "absent"
    /\ route_response.success = "absent"

\* C15: no lock or gate orders two runs: a run at its read can always read
\* and a run at its write can always write, whatever the other run is doing;
\* and a successful write replaces the whole artifact by the run's own patch
\* output, whether or not the artifact still is what the run had read.  So
\* two runs that read the same content both write and both succeed, and the
\* artifact holds only the later write.
C15_LostUpdate ==
    /\ [](\A h \in Handlers :
             /\ pc[h] = "reading" => ENABLED ReadReturns(h, TRUE)
             /\ pc[h] = "writing" => ENABLED WriteReturns(h, TRUE))
    /\ [][\A h \in Handlers :
             (pc[h] = "writing" /\ Succeeded(h)')
                 => /\ gamezone' = updated_gamezone[h]
                    /\ \A q \in Handlers \ {h} :
                           Succeeded(q) => Succeeded(q)'
          ]_vars

\* C15: two runs read the same content before either wrote, both wrote and
\* reported success, and the artifact holds one write only.
C15_Witness ==
    \E a, b \in Handlers :
        /\ Succeeded(a)
        /\ Succeeded(b)
        /\ current_gamezone[a] = RepoGameZone
        /\ current_gamezone[b] = RepoGameZone
        /\ LastCall(a).op = "write"
        /\ LastCall(b).op = "write"
        /\ LastCall(a).arg # LastCall(b).arg
        /\ LastCall(a).arg # RepoGameZone
        /\ LastCall(b).arg # RepoGameZone
        /\ gamezone = LastCall(b).arg

\* C16: the debug sidecar starts with every field unset, and only a step of
\* the /generate-game pipeline changes it: /last-debug, /status, /connect,
\* /gamezone/read, /gamezone/update, /gamezone/write, /game-log and
\* /detailed-log (the steps that answer in route_response) leave every field
\* as it was, also when they write the artifact.
C16_SidecarFrame ==
    /\ last_generation_debug = EmptyDebug
    /\ [][/\ (route_response' # route_response)
                 => last_generation_debug' = last_generation_debug
          /\ (last_generation_debug' # last_generation_debug)
                 => \E h \in Handlers :
                        /\ pc[h] \in {"generating", "reading", "patching",
                                      "writing"}
                        /\ pc'[h] # pc[h]
                        /\ requests' = requests
         ]_vars

\* C16: after a run had filled the sidecar, /gamezone/write replaced the
\* artifact and the sidecar still shows the run's write.
C16_Witness ==
    /\ route_response.route = "write"
    /\ route_response.status = 200
    /\ gamezone \in Contents
    /\ last_generation_debug.written_code # None
    /\ last_generation_debug.written_code # gamezone
    /\ last_generation_debug.idea \in Ideas

\* The position of a pipeline step in the handler's straight-line code.
StepRank(at) ==
    CASE at = "idle" -> 0
      [] at = "generating" -> 1
      [] at = "logging" -> 2
      [] at = "reading" -> 3
      [] at = "patching" -> 4
      [] at = "writing" -> 5
      [] at = "done" -> 6

\* C17: provided each external call eventually returns or raises, every
\* started run eventually ends; it ends in exactly one of a success response
\* and a failure response; and no step of a run leads back to the same or an
\* earlier step.
C17_RunTerminates ==
    /\ \A h \in Handlers : InProgress(h) ~> (pc[h] = "done")
    /\ [](\A h \in Handlers :
             pc[h] = "done" => (Succeeded(h) <=> ~Failed(h)))
    /\ [][\A h \in Handlers :
             (InProgress(h) /\ (pc'[h] # pc[h] \/ calls'[h] # calls[h]))
                 => StepRank(pc'[h]) > StepRank(pc[h])
          ]_vars

\* C17: a run has gone through every step and ended.
C17_Witness ==
    \E h \in Handlers :
        /\ pc[h] = "done"
        /\ Len(calls[h]) = 4
        /\ LastCall(h).op = "write"
        /\ Succeeded(h) \/ Failed(h)

\* C18: a failure to append to the detailed text log is swallowed: whether
\* or not the append succeeded, the run goes on to the read, patch and write
\* steps with the same candidate, no response yet and the File Store and the
\* sidecar untouched; only the log file itself can differ.
C18_LogFailureSwallowed ==
    [][\A h \in Handlers :
          (pc[h] = "logging" /\ pc'[h] # "logging")
              => /\ pc'[h] = "reading"
                 /\ react_code'[h] = last_generation_debug.claude_code
                 /\ response' = response
                 /\ calls' = calls
                 /\ gamezone' = gamezone
                 /\ last_generation_debug' = last_generation_debug
                 /\ detailed_log => detailed_log'
      ]_vars

\* C18: a run whose append failed (the log file does not exist) has gone on
\* to write the artifact and reported success.
C18_Witness ==
    \E h \in Handlers :
        /\ ~detailed_log
        /\ Succeeded(h)
        /\ LastCall(h).op = "write"
        /\ gamezone = LastCall(h).arg

\* The generator call of the run of handler h returned no usable text.
NoUsableText(h) ==
    /\ Attempted(h, "generate")
    /\ game_html[h] \in {None, <<>>}

\* C19: if the generator returns no usable text (None or the empty string),
\* the run fails at the generation step: it reports failure without reading
\* the File Store, calling the patch adapter or writing the artifact.
C19_NoUsableTextFails ==
    \A h \in Handlers :
        NoUsableText(h)
            => /\ Failed(h)
               /\ ~Attempted(h, "read")
               /\ ~Attempted(h, "patch")
               /\ ~Attempted(h, "write")

\* C19, the failing case: the generator returned the empty string and the
\* run patched, wrote the artifact and reported success.
C19_Witness ==
    \E h \in Handlers :
        /\ game_html[h] = <<>>
        /\ Succeeded(h)
        /\ response[h].game_size = 0
        /\ Called(h, "patch", TRUE)
        /\ Called(h, "write", TRUE)
        /\ gamezone = LastCall(h).arg

\* The sidecar fields generate_game assigns.
GenerationFields == {"idea", "timestamp", "claude_code_raw", "claude_code"}

\* The sidecar fields apply_react_with_morph_to_gamezone assigns.
ApplyFields == {"before_code", "morph_code_raw", "morph_code", "written_code"}

\* C20: the single debug slot is shared by the runs and assigned field by
\* field: the snapshot after the generator call leaves the apply fields of
\* whichever run set them, and the apply steps leave the generation fields
\* of whichever run set them.  So with two runs racing there is an
\* interleaving where both report success and the sidecar holds idea and
\* claude_code of one run with morph_code and written_code of the other.
C20_FieldByField ==
    [][\A h \in Handlers :
          /\ (pc[h] = "generating" /\ pc'[h] # pc[h])
                 => \A f \in ApplyFields :
                        last_generation_debug'[f] = last_generation_debug[f]
          /\ (pc[h] \in {"reading", "patching", "writing"} /\ pc'[h] # pc[h])
                 => \A f \in GenerationFields :
                        last_generation_debug'[f] = last_generation_debug[f]
      ]_vars

\* C20: both runs reported success and the sidecar mixes them: idea and
\* generator output of run a, patch output and written text of run b.
C20_Witness ==
    \E a, b \in Handlers :
        /\ Succeeded(a)
        /\ Succeeded(b)
        /\ game_idea[a] # game_idea[b]
        /\ game_html[a] # game_html[b]
        /\ LastCall(a).arg # LastCall(b).arg
        /\ last_generation_debug.idea = game_idea[a]
        /\ last_generation_debug.claude_code_raw = game_html[a]
        /\ last_generation_debug.morph_code = LastCall(b).arg
        /\ last_generation_debug.written_code = LastCall(b).arg

\* A step that answers 400 from a one-step route and touches nothing: no
\* File Store call, no generator or patch call, no change of the connection,
\* the artifact, the sidecar, the log or any run.
RejectedRoute ==
    /\ route_response'.status = 400
    /\ route_response'.error # "absent"
    /\ UNCHANGED <<dev_server_wrapper, gamezone, last_generation_debug,
                   detailed_log, pc, calls, response>>

\* A step that answers 400 to the /generate-game request handler h took,
\* with no external call and nothing else touched.
RejectedRun(h) ==
    /\ pc'[h] = "done"
    /\ response'[h].status = 400
    /\ response'[h].error # "absent"
    /\ calls'[h] = <<>>
    /\ UNCHANGED <<dev_server_wrapper, gamezone, last_generation_debug,
                   detailed_log>>

\* C21: while no dev server is connected, /gamezone/read, /gamezone/update,
\* /gamezone/write and /generate-game each answer 400, make no generator,
\* patch or File Store call and change no server state; likewise
\* /generate-game without 'game_idea', /gamezone/update without 'game_name'
\* and /gamezone/write without 'content' are rejected before any external
\* call or sidecar change.
C21_RejectedUntouched ==
    [][\A ok \in BOOLEAN :
          /\ (dev_server_wrapper = 0 /\ read_gamezone(ok)) => RejectedRoute
          /\ \A data \in GameNames \cup {None} :
                 ((dev_server_wrapper = 0 \/ data = None)
                     /\ update_gamezone(data, ok)) => RejectedRoute
          /\ \A data \in Contents \cup {None} :
                 ((dev_server_wrapper = 0 \/ data = None)
                     /\ write_gamezone(data, ok)) => RejectedRoute
          /\ \A h \in Handlers, body \in Ideas \cup {None} :
                 ((dev_server_wrapper = 0 \/ body = None)
                     /\ generate_game(h, body)) => RejectedRun(h)
      ]_vars

\* C21: on a connected server whose artifact a run has replaced,
\* /gamezone/write without 'content' was rejected and the artifact is still
\* what the run wrote.
C21_Witness ==
    /\ dev_server_wrapper # 0
    /\ route_response.route = "write"
    /\ route_response.status = 400
    /\ route_response.error = "Missing 'content'"
    /\ gamezone # RepoGameZone
    /\ gamezone = last_generation_debug.written_code

\* /status reports connected.
Connected == dev_server_wrapper # 0

\* C22: the connection is replaced only by a /connect in which repository
\* creation and the dev-server request both succeed; a /connect that fails
\* leaves the previous connection as it was; so once connected the server
\* stays connected, and /status never reports not connected again.
C22_ConnectionKept ==
    /\ [][/\ (dev_server_wrapper' # dev_server_wrapper)
                 => /\ connect_to_repo(TRUE)
                    /\ route_response'.route = "connect"
                    /\ route_response'.status = 200
                    /\ dev_server_wrapper' # 0
          /\ connect_to_repo(FALSE)
                 => /\ dev_server_wrapper' = dev_server_wrapper
                    /\ route_response'.status = 500
          /\ Connected => Connected'
          /\ (Connected /\ get_status)
                 => route_response'.content = <<"connected">>
         ]_vars
    /\ [](route_response.route = "status"
             => (route_response.content = <<"connected">> <=> Connected))

\* C22: after a successful /connect a second /connect failed and the first
\* connection is still in place.
C22_Witness ==
    /\ route_response.route = "connect"
    /\ route_response.status = 500
    /\ dev_server_wrapper # 0
    /\ dev_server_wrapper < requests

-----------------------------------------------------------------------------
(* The controller and the scripts *)

\* A call of one of the methods that use self.dev_server.
GuardedCall ==
    \/ \E given \in BOOLEAN, found \in BOOLEAN, ok \in BOOLEAN :
           upload_env_file(given, found, ok)
    \/ \E ok \in BOOLEAN : edit_game_zone(ok)
    \/ \E ok \in BOOLEAN : read_file(ok)
    \/ \E ok \in BOOLEAN : list_files(ok)
    \/ \E ok \in BOOLEAN : run_command(ok)
    \/ \E ok \in BOOLEAN : commit_and_push(ok)

\* A call of request_dev_server.
RequestCall == \E arg \in RepoArgs, ok \in BOOLEAN : request_dev_server(arg, ok)

\* The methods that use self.dev_server.
GuardedOps ==
    {"upload_env_file", "edit_game_zone", "read_file", "list_files",
     "run_command", "commit_and_push"}

\* C23: on a controller for which no request_dev_server call has succeeded
\* (self.dev_server is None), a call of upload_env_file, edit_game_zone,
\* read_file, list_files, run_command or commit_and_push raises ValueError
\* and issues no remote call; a request_dev_server call that does not obtain
\* a dev server leaves the controller without one, and returns None when
\* the request it made to the service failed.
C23_NoServerNoCall ==
    [][ /\ (dev_server = 0 /\ GuardedCall)
           => /\ ctl_last'.op \in GuardedOps
              /\ ctl_last'.raised
              /\ ctl_last'.result = "ValueError"
              /\ ctl_last'.remote = "none"
              /\ dev_server' = 0
        /\ (dev_server = 0 /\ RequestCall /\ ctl_last'.result # "dev_server")
           => /\ dev_server' = 0
              /\ (ctl_last'.remote = "request_dev_server"
                     => ctl_last'.result = "None" /\ ~ctl_last'.raised)
      ]_vars

\* A guarded method raised after a request_dev_server(100) call failed.
C23_Witness ==
    /\ dev_server = 0
    /\ repo_id = 100
    /\ ctl_last.op \in GuardedOps
    /\ ctl_last = NoDevServer(ctl_last.op)

\* A call of add_new_game_to_list.
AddCall ==
    \E arg \in RepoArgs, game_name \in GameTitles :
        \E server_ok \in BOOLEAN, read_ok \in BOOLEAN, write_ok \in BOOLEAN :
            add_new_game_to_list(arg, game_name, server_ok, read_ok, write_ok)

\* The games array of 'text' has 'game_name' as an entry.
HasGame(text, game_name) ==
    \E i \in 1..Len(text) :
        /\ text[i] = NEWGAMES
        /\ i + 2 <= Len(text)
        /\ text[i + 1] = game_name
        /\ text[i + 2] = ENDGAMES

\* C24: add_new_game_to_list returns True only if the content it wrote to
\* src/App.js has the new game name in the games array, and it does not
\* return True when the games array text it looks for is absent from the
\* file it read.
C24_AddedWhenReported ==
    [][ (AddCall /\ add_last'.returned = "True")
           => /\ Contains(app_js, GAMES)
              /\ add_last'.wrote # None
              /\ HasGame(add_last'.wrote, add_last'.game_name)
      ]_vars

\* add_new_game_to_list returned True for a game that is not in the content
\* it wrote.
C24_Witness ==
    /\ add_last.returned = "True"
    /\ add_last.wrote = app_js
    /\ ~Contains(add_last.wrote, GAMES)
    /\ ~HasGame(add_last.wrote, add_last.game_name)

\* A dev server call that reaches the File Store or runs a process.
ServerCalls == {"fs.write_file", "fs.read_file", "fs.ls", "process.exec"}

\* C25: once shutdown() has returned True for a running dev server, no
\* File Store or process call is issued to that server.
C25_NoCallAfterShutdown ==
    ctl_last.remote \in ServerCalls => ctl_last.server \notin shut_down

\* edit_game_zone, read_file, list_files or run_command went through to a
\* dev server that shutdown() had shut down.
C25_Witness ==
    /\ ctl_last.op \in {"edit_game_zone", "read_file", "list_files",
                         "run_command"}
    /\ ~ctl_last.raised
    /\ ctl_last.remote \in ServerCalls
    /\ ctl_last.server \in shut_down
    /\ ctl_last.server = dev_server

====
